---- MODULE Spec2Model ----
(***************************************************************************)
(* Model of the stepwise simulation engine of src/aegis/lib/simulation.ts  *)
(* (the useSimulation hook): the refs of the hook, the published           *)
(* simulationState, the workers array, the armed interval timers and the   *)
(* ticks awaiting predictWorkerRisk.                                       *)
(* Two further parts model one call of ModelLoader.predict                 *)
(* (src/aegis/lib/modelLoader.ts) and the JSModelLoader singleton          *)
(* (src/unnamed/part_001).                                                 *)
(*                                                                         *)
(* Numbers are fixed point.  One-decimal fields (temperature, humidity,    *)
(* hrv_mean_hr, hrv_rmssd, hrv_sdnn, hrv_pnni_50, hrv_min_hr, hrv_max_hr,  *)
(* hrv_std_hr) are held in tenths, integer fields (hrv_mean_nni,           *)
(* hrv_total_power, hrv_lf, hrv_hf, hrv_median_nni, hrv_range_nni) in      *)
(* units, hrv_lf_hf_ratio in hundredths and hrv_cvnni in thousandths.      *)
(* The unrounded intermediate values of calculateNextSimulationValues are  *)
(* held in thousandths ("milli") and the arithmetic is exact decimal       *)
(* arithmetic; Math.round is floor(x + 1/2).                               *)
(***************************************************************************)
EXTENDS Integers, Sequences, FiniteSets, TLC

VARIABLES
  workers,                 \* the workers prop / workersRef.current: <<>> or <<John Doe>>
  simulationState,         \* useState value published to the UI
  intervalRef,             \* 0 = null, otherwise the id of the interval it holds
  armed,                   \* ids of the intervals that are armed (setInterval without clearInterval)
  timerSeq,                \* number of intervals created so far (id of the newest)
  stepCountRef,
  baselineValuesRef,       \* <<>> = {}, otherwise <<[temperature, humidity]>>
  errorCountRef,
  consecutiveErrorsRef,
  simulationTypeRef,       \* "heatup", "cooldown" or "null"
  isActiveRef,
  currentWorkerValuesRef,  \* <<>> = null, otherwise <<worker>>
  inflight,                \* ticks awaiting predictWorkerRisk, in the order they began
  lastStop,                \* reason of the newest stopSimulation call (console.log, line 104)
  fired,                   \* number of timer callbacks run so far
  reported,                \* <<>>, or <<context>> of the onError call the newest step made
  pythonCall,              \* the call of ModelLoader.predict (modelLoader.ts)
  jsLoader,                \* the JSModelLoader singleton and its newest call
  scoreCall,               \* the newest call of ModelLoader.calculateRiskScore
  healthResponse           \* the newest answer of the health route

vars == <<workers, simulationState, intervalRef, armed, timerSeq, stepCountRef,
          baselineValuesRef, errorCountRef, consecutiveErrorsRef,
          simulationTypeRef, isActiveRef, currentWorkerValuesRef, inflight,
          lastStop, fired, reported, pythonCall, jsLoader, scoreCall,
          healthResponse>>

\* the variables of the hook and those of the two model loaders
hookVars == <<workers, simulationState, intervalRef, armed, timerSeq,
              stepCountRef, baselineValuesRef, errorCountRef,
              consecutiveErrorsRef, simulationTypeRef, isActiveRef,
              currentWorkerValuesRef, inflight, lastStop, fired, reported>>

loaderVars == <<pythonCall, jsLoader, scoreCall, healthResponse>>

----------------------------------------------------------------------------
(* Bounds of the model *)

MaxInFlight == 2
MaxTicks == 3
MaxStarts == 2
GenSteps == 2

----------------------------------------------------------------------------
(* Configuration constants, simulation.ts lines 10-55 (fixed point) *)

TEMPERATURE_INCREMENT == 1200          \* 1.2, milli
HUMIDITY_INCREMENT == 3500             \* 3.5, milli
MAX_TEMPERATURE == 340                 \* 34, tenths
MIN_TEMPERATURE == 100                 \* 10, tenths
MAX_HUMIDITY == 900                    \* 90, tenths
MIN_HUMIDITY == 200                    \* 20, tenths
HRV_INCREASE_RMSSD == 104              \* 1.04, percent
HRV_INCREASE_SDNN == 103
HRV_INCREASE_PNN50 == 105
HRV_INCREASE_POWER == 106
HRV_INCREASE_LF == 103
HRV_INCREASE_HF == 108
HRV_DECREASE_RMSSD == 96
HRV_DECREASE_SDNN == 97
HRV_DECREASE_PNN50 == 93
HRV_DECREASE_POWER == 92
HRV_DECREASE_LF == 94
HRV_DECREASE_HF == 90
HEART_RATE_STRESS_INCREMENT == 1500    \* 1.5, milli
HEART_RATE_RECOVERY_DECREMENT == 1200  \* 1.2, milli
MAX_SIMULATION_STEPS == 100
MAX_CONSECUTIVE_ERRORS == 3
MAX_TOTAL_ERRORS == 10

----------------------------------------------------------------------------
(* Values *)

NULL == <<>>
Some(x) == <<x>>

Min(a, b) == IF a <= b THEN a ELSE b
Max(a, b) == IF a >= b THEN a ELSE b

\* the value of an absent numeric / string field of a Worker (undefined)
UNDEFINED == -1
UNDEFINED_CLASS == "undefined"

RiskFields == {"riskScore", "predictedClass", "confidence"}

\* {...base, ...updates}
Merge(base, updates) ==
  [f \in DOMAIN base |-> IF f \in DOMAIN updates THEN updates[f] ELSE base[f]]

\* milli value of a field held in tenths / in units
TenthsToMilli(x) == 100 * x
UnitsToMilli(x) == 1000 * x

\* Math.round(x * 10) / 10 of a milli value, in tenths
RoundTenths(milli) == (milli + 50) \div 100
\* Math.round(x) of a milli value, in units
RoundUnits(milli) == (milli + 500) \div 1000
\* Math.round(num / den * scale) for den > 0
RoundRatio(num, den, scale) == (2 * scale * num + den) \div (2 * den)

----------------------------------------------------------------------------
(* Signal generator: calculateNextSimulationValues, lines 136-213 *)

\* current * factor, factor given in percent; exact on milli values of fields
\* held in tenths or units
Scale(milli, percent) == (milli * percent) \div 100

\* NewTemp without Math.min / Math.max
NewTemp_Unclamped(currentTemp, simulationType) ==
  IF simulationType = "heatup" THEN currentTemp + TEMPERATURE_INCREMENT
  ELSE IF simulationType = "cooldown" THEN currentTemp - TEMPERATURE_INCREMENT
  ELSE currentTemp

\* newTemp, lines 151, 164 and 179 (milli)
NewTemp(currentTemp, simulationType) ==
  IF simulationType = "heatup"
    THEN Min(TenthsToMilli(MAX_TEMPERATURE), currentTemp + TEMPERATURE_INCREMENT)
  ELSE IF simulationType = "cooldown"
    THEN Max(TenthsToMilli(MIN_TEMPERATURE), currentTemp - TEMPERATURE_INCREMENT)
  ELSE currentTemp

\* NewHumidity stepping by TEMPERATURE_INCREMENT
NewHumidity_WrongIncrement(currentHumidity, simulationType) ==
  IF simulationType = "heatup"
    THEN Min(TenthsToMilli(MAX_HUMIDITY), currentHumidity + TEMPERATURE_INCREMENT)
  ELSE IF simulationType = "cooldown"
    THEN Max(TenthsToMilli(MIN_HUMIDITY), currentHumidity - TEMPERATURE_INCREMENT)
  ELSE currentHumidity

\* newHumidity, lines 152, 165 and 180 (milli)
NewHumidity(currentHumidity, simulationType) ==
  IF simulationType = "heatup"
    THEN Min(TenthsToMilli(MAX_HUMIDITY), currentHumidity + HUMIDITY_INCREMENT)
  ELSE IF simulationType = "cooldown"
    THEN Max(TenthsToMilli(MIN_HUMIDITY), currentHumidity - HUMIDITY_INCREMENT)
  ELSE currentHumidity

\* NewMeanHR without the Math.max(50, ...) of cool-down
NewMeanHR_NoFloor(currentMeanHR, simulationType) ==
  IF simulationType = "heatup"
    THEN Min(110000, currentMeanHR + HEART_RATE_STRESS_INCREMENT)
  ELSE IF simulationType = "cooldown"
    THEN currentMeanHR - HEART_RATE_RECOVERY_DECREMENT
  ELSE currentMeanHR

\* newMeanHR, lines 153, 168 and 183 (milli)
NewMeanHR(currentMeanHR, simulationType) ==
  IF simulationType = "heatup"
    THEN Min(110000, currentMeanHR + HEART_RATE_STRESS_INCREMENT)
  ELSE IF simulationType = "cooldown"
    THEN Max(50000, currentMeanHR - HEART_RATE_RECOVERY_DECREMENT)
  ELSE currentMeanHR

CalculateNextSimulationValues(currentWorker, simulationType) ==
  LET heat == simulationType = "heatup"
      cool == simulationType = "cooldown"
      currentTemp == TenthsToMilli(currentWorker.temperature)
      currentHumidity == TenthsToMilli(currentWorker.humidity)
      currentMeanHR == TenthsToMilli(currentWorker.hrv_mean_hr)
      currentRMSSD == TenthsToMilli(currentWorker.hrv_rmssd)
      currentSDNN == TenthsToMilli(currentWorker.hrv_sdnn)
      currentMeanNNI == UnitsToMilli(currentWorker.hrv_mean_nni)
      currentPNN50 == TenthsToMilli(currentWorker.hrv_pnni_50)
      currentTotalPower == UnitsToMilli(currentWorker.hrv_total_power)
      currentLF == UnitsToMilli(currentWorker.hrv_lf)
      currentHF == UnitsToMilli(currentWorker.hrv_hf)
      newTemp == NewTemp(currentTemp, simulationType)
      newHumidity == NewHumidity(currentHumidity, simulationType)
      newMeanHR == NewMeanHR(currentMeanHR, simulationType)
      newRMSSD ==
        IF heat THEN Min(120000, Scale(currentRMSSD, HRV_INCREASE_RMSSD))
        ELSE IF cool THEN Max(15000, Scale(currentRMSSD, HRV_DECREASE_RMSSD))
        ELSE currentRMSSD
      newSDNN ==
        IF heat THEN Min(150000, Scale(currentSDNN, HRV_INCREASE_SDNN))
        ELSE IF cool THEN Max(20000, Scale(currentSDNN, HRV_DECREASE_SDNN))
        ELSE currentSDNN
      newMeanNNI ==
        IF heat THEN Min(1200000, Scale(currentMeanNNI, 104))
        ELSE IF cool THEN Min(1200000, Scale(currentMeanNNI, 104))
        ELSE currentMeanNNI
      newPNN50 ==
        IF heat THEN Min(50000, Scale(currentPNN50, HRV_INCREASE_PNN50))
        ELSE IF cool THEN Max(5000, Scale(currentPNN50, HRV_DECREASE_PNN50))
        ELSE currentPNN50
      newTotalPower ==
        IF heat THEN Min(5000000, Scale(currentTotalPower, HRV_INCREASE_POWER))
        ELSE IF cool THEN Max(800000, Scale(currentTotalPower, HRV_DECREASE_POWER))
        ELSE currentTotalPower
      newLF ==
        IF heat THEN Min(1500000, Scale(currentLF, HRV_INCREASE_LF))
        ELSE IF cool THEN Max(200000, Scale(currentLF, HRV_DECREASE_LF))
        ELSE currentLF
      newHF ==
        IF heat THEN Min(1000000, Scale(currentHF, HRV_INCREASE_HF))
        ELSE IF cool THEN Max(100000, Scale(currentHF, HRV_DECREASE_HF))
        ELSE currentHF
  IN  [ temperature     |-> RoundTenths(newTemp),
        humidity        |-> RoundTenths(newHumidity),
        hrv_mean_hr     |-> RoundTenths(newMeanHR),
        hrv_rmssd       |-> RoundTenths(newRMSSD),
        hrv_sdnn        |-> RoundTenths(newSDNN),
        hrv_mean_nni    |-> RoundUnits(newMeanNNI),
        hrv_pnni_50     |-> RoundTenths(newPNN50),
        hrv_total_power |-> RoundUnits(newTotalPower),
        hrv_lf          |-> RoundUnits(newLF),
        hrv_hf          |-> RoundUnits(newHF),
        hrv_min_hr      |-> RoundTenths(newMeanHR - 15000),
        hrv_max_hr      |-> RoundTenths(newMeanHR + 25000),
        hrv_std_hr      |-> RoundRatio(3 * newSDNN, 1000, 1),
        hrv_lf_hf_ratio |-> RoundRatio(newLF, newHF, 100),
        hrv_median_nni  |-> RoundRatio(98 * newMeanNNI, 100000, 1),
        hrv_range_nni   |-> RoundUnits(8 * newSDNN),
        hrv_cvnni       |-> RoundRatio(newSDNN, newMeanNNI, 1000) ]

----------------------------------------------------------------------------
(* Termination policy: shouldContinueSimulation, lines 221-242.  stepCount  *)
(* is the value of stepCountRef.current the function reads.                 *)

\* ShouldContinueSimulation stopping as soon as either quantity saturates
ShouldContinueSimulation_And(currentWorker, simulationType, stepCount) ==
  IF stepCount >= MAX_SIMULATION_STEPS THEN FALSE
  ELSE IF simulationType = "heatup"
    THEN currentWorker.temperature < MAX_TEMPERATURE
         /\ currentWorker.humidity < MAX_HUMIDITY
  ELSE IF simulationType = "cooldown"
    THEN currentWorker.temperature > MIN_TEMPERATURE
         /\ currentWorker.humidity > MIN_HUMIDITY
  ELSE FALSE

\* ShouldContinueSimulation comparing the step count with > instead of >=
ShouldContinueSimulation_OffByOne(currentWorker, simulationType, stepCount) ==
  IF stepCount > MAX_SIMULATION_STEPS THEN FALSE
  ELSE IF simulationType = "heatup"
    THEN currentWorker.temperature < MAX_TEMPERATURE
         \/ currentWorker.humidity < MAX_HUMIDITY
  ELSE IF simulationType = "cooldown"
    THEN currentWorker.temperature > MIN_TEMPERATURE
         \/ currentWorker.humidity > MIN_HUMIDITY
  ELSE FALSE

ShouldContinueSimulation(currentWorker, simulationType, stepCount) ==
  IF stepCount >= MAX_SIMULATION_STEPS THEN FALSE
  ELSE IF simulationType = "heatup"
    THEN currentWorker.temperature < MAX_TEMPERATURE
         \/ currentWorker.humidity < MAX_HUMIDITY
  ELSE IF simulationType = "cooldown"
    THEN currentWorker.temperature > MIN_TEMPERATURE
         \/ currentWorker.humidity > MIN_HUMIDITY
  ELSE FALSE

\* the budgets compared with > instead of >=
ConsecutiveErrorsExceeded_OffByOne(consecutiveErrors) ==
  consecutiveErrors > MAX_CONSECUTIVE_ERRORS
TotalErrorsExceeded_OffByOne(errorCount) == errorCount > MAX_TOTAL_ERRORS

\* the error budgets and the step limit of the catch block, lines 396, 401, 410
ConsecutiveErrorsExceeded(consecutiveErrors) ==
  consecutiveErrors >= MAX_CONSECUTIVE_ERRORS
TotalErrorsExceeded(errorCount) == errorCount >= MAX_TOTAL_ERRORS
MaximumStepsReached(stepCount) == stepCount >= MAX_SIMULATION_STEPS

----------------------------------------------------------------------------
(* Collaborators of the hook *)

\* predictWorkerRisk (./api) resolves with one of these or rejects
Predictions ==
  { [risk_score |-> 7500, predicted_class |-> "hot", confidence |-> 600] }

\* the environmental fields generateWorkerWithRiskProfile (./utils) returns:
\* the profile the worker of Init was generated with
FreshProfiles == { [temperature |-> 328, humidity |-> 830] }

\* the parent's onWorkerUpdate(workerId, updates): merges the updates into the
\* worker of that id, if it is in the list
OnWorkerUpdate(list, updates) ==
  IF list = <<>> THEN list ELSE <<Merge(list[1], updates)>>

\* a risk annotation that leaves the confidence out
RiskOf_DropsConfidence(prediction) ==
  [ riskScore      |-> prediction.risk_score,
    predictedClass |-> prediction.predicted_class,
    confidence     |-> UNDEFINED ]

\* riskScore/predictedClass/confidence of a prediction, lines 300-302
RiskOf(prediction) ==
  [ riskScore      |-> prediction.risk_score,
    predictedClass |-> prediction.predicted_class,
    confidence     |-> prediction.confidence ]

NoRisk ==
  [ riskScore |-> UNDEFINED, predictedClass |-> UNDEFINED_CLASS,
    confidence |-> UNDEFINED ]

HasRisk(w) ==
  \/ w.riskScore # UNDEFINED
  \/ w.predictedClass # UNDEFINED_CLASS
  \/ w.confidence # UNDEFINED

----------------------------------------------------------------------------
(* Workers the runs start from *)

BaseWorker ==
  [ temperature |-> 220, humidity |-> 450, hrv_mean_hr |-> 700,
    hrv_rmssd |-> 300, hrv_sdnn |-> 450, hrv_mean_nni |-> 850,
    hrv_pnni_50 |-> 150, hrv_total_power |-> 2000, hrv_lf |-> 600,
    hrv_hf |-> 400, hrv_min_hr |-> 550, hrv_max_hr |-> 950,
    hrv_std_hr |-> 135, hrv_lf_hf_ratio |-> 150, hrv_median_nni |-> 833,
    hrv_range_nni |-> 360, hrv_cvnni |-> 53,
    riskScore |-> UNDEFINED, predictedClass |-> UNDEFINED_CLASS,
    confidence |-> UNDEFINED ]

\* temperature 32.8, humidity 83.0: one heat-up tick saturates the temperature,
\* two saturate both
NearMaxWorker == Merge(BaseWorker, [temperature |-> 328, humidity |-> 830])

\* temperature 22.0, humidity 45.0, mean HR 70.0
ScenarioWorker == Merge(BaseWorker, [temperature |-> 220])

\* a worker so cold that heat-up cannot saturate within MAX_SIMULATION_STEPS
FrozenWorker == Merge(BaseWorker, [temperature |-> -1000])

----------------------------------------------------------------------------
(* The hook *)

\* findTargetWorker falling back to the cached worker when the list has none
FindTargetWorker_FromCache ==
  IF workers = <<>> THEN currentWorkerValuesRef ELSE Some(workers[1])

\* findTargetWorker answering from the cache when there is one
FindTargetWorker_PrefersCache ==
  IF currentWorkerValuesRef # NULL THEN currentWorkerValuesRef
  ELSE IF workers = <<>> THEN NULL ELSE Some(workers[1])

\* findTargetWorker, lines 126-128
FindTargetWorker == IF workers = <<>> THEN NULL ELSE Some(workers[1])

\* clearSimulationInterval dropping the handle without clearInterval
ClearSimulationInterval_KeepsArmed == armed

\* clearSimulationInterval, lines 93-98: the intervals left armed
ClearSimulationInterval ==
  IF intervalRef # 0 THEN armed \ {intervalRef} ELSE armed

\* stopSimulation that leaves isActiveRef as it was
StopSimulation_KeepsActive(reason, prev) ==
  /\ lastStop' = reason
  /\ armed' = ClearSimulationInterval
  /\ intervalRef' = 0
  /\ simulationTypeRef' = "null"
  /\ isActiveRef' = isActiveRef
  /\ currentWorkerValuesRef' = NULL
  /\ simulationState' = [prev EXCEPT !.isActive = FALSE, !.type = "null"]
  /\ stepCountRef' = 0
  /\ errorCountRef' = 0
  /\ consecutiveErrorsRef' = 0

\* stopSimulation that does not publish the end of the run
StopSimulation_KeepsPublished(reason, prev) ==
  /\ lastStop' = reason
  /\ armed' = ClearSimulationInterval
  /\ intervalRef' = 0
  /\ simulationTypeRef' = "null"
  /\ isActiveRef' = FALSE
  /\ currentWorkerValuesRef' = NULL
  /\ simulationState' = prev
  /\ stepCountRef' = 0
  /\ errorCountRef' = 0
  /\ consecutiveErrorsRef' = 0

\* stopSimulation that leaves simulationTypeRef as it was
StopSimulation_KeepsMode(reason, prev) ==
  /\ lastStop' = reason
  /\ armed' = ClearSimulationInterval
  /\ intervalRef' = 0
  /\ simulationTypeRef' = simulationTypeRef
  /\ isActiveRef' = FALSE
  /\ currentWorkerValuesRef' = NULL
  /\ simulationState' = [prev EXCEPT !.isActive = FALSE, !.type = "null"]
  /\ stepCountRef' = 0
  /\ errorCountRef' = 0
  /\ consecutiveErrorsRef' = 0

\* stopSimulation, lines 103-117; prev is the simulationState its functional
\* update is applied to
StopSimulation(reason, prev) ==
  /\ lastStop' = reason
  /\ armed' = ClearSimulationInterval
  /\ intervalRef' = 0
  /\ simulationTypeRef' = "null"
  /\ isActiveRef' = FALSE
  /\ currentWorkerValuesRef' = NULL
  /\ simulationState' = [prev EXCEPT !.isActive = FALSE, !.type = "null"]
  /\ stepCountRef' = 0
  /\ errorCountRef' = 0
  /\ consecutiveErrorsRef' = 0

\* startHeatUpSimulation / startCoolDownSimulation, lines 420-513
StartSimulation(simulationType) ==
  LET targetWorker == FindTargetWorker IN
  IF targetWorker = NULL
    THEN UNCHANGED vars
    ELSE /\ lastStop' = "Starting new simulation"
         /\ baselineValuesRef' =
              Some([ temperature |-> targetWorker[1].temperature,
                     humidity |-> targetWorker[1].humidity ])
         /\ stepCountRef' = 0
         /\ errorCountRef' = 0
         /\ consecutiveErrorsRef' = 0
         /\ simulationTypeRef' = simulationType
         /\ isActiveRef' = TRUE
         /\ currentWorkerValuesRef' = targetWorker
         /\ simulationState' =
              [ isActive |-> TRUE, type |-> simulationType,
                targetWorker |-> "John Doe", currentValues |-> targetWorker ]
         /\ timerSeq' = timerSeq + 1
         /\ intervalRef' = timerSeq + 1
         /\ armed' = ClearSimulationInterval \cup {timerSeq + 1}
         /\ reported' = NULL
         /\ UNCHANGED <<workers, inflight, fired>>

\* performSimulationStep up to its await, lines 247-294, run by interval t
PerformSimulationStep(t) ==
  /\ fired' = fired + 1
  /\ reported' = NULL
  /\ IF ~isActiveRef \/ simulationTypeRef = "null"
       THEN /\ StopSimulation("Simulation no longer active", simulationState)
            /\ UNCHANGED <<workers, baselineValuesRef, timerSeq, inflight>>
       ELSE LET targetWorker ==
                  IF currentWorkerValuesRef # NULL
                    THEN currentWorkerValuesRef ELSE FindTargetWorker
            IN  IF targetWorker = NULL
                  THEN /\ StopSimulation("Target worker not found", simulationState)
                       /\ UNCHANGED <<workers, baselineValuesRef, timerSeq, inflight>>
                  ELSE /\ currentWorkerValuesRef' = targetWorker
                       /\ inflight' = Append(inflight,
                            [ timer |-> t,
                              targetWorker |-> targetWorker[1],
                              simulationType |-> simulationTypeRef ])
                       /\ UNCHANGED <<workers, simulationState, intervalRef, armed,
                                      timerSeq, stepCountRef, baselineValuesRef,
                                      errorCountRef, consecutiveErrorsRef,
                                      simulationTypeRef, isActiveRef, lastStop>>

\* an error context with the counts as they were before this failure
ErrorContext_BeforeCounting(step, simulationType, errorCount, consecutiveErrors) ==
  [ step |-> step, simulationType |-> simulationType,
    errorCount |-> errorCount - 1,
    consecutiveErrors |-> consecutiveErrors - 1 ]

\* the context onError is called with, lines 386-393
ErrorContext(step, simulationType, errorCount, consecutiveErrors) ==
  [ step |-> step, simulationType |-> simulationType,
    errorCount |-> errorCount, consecutiveErrors |-> consecutiveErrors ]

RemoveAt(seq, i) == SubSeq(seq, 1, i - 1) \o SubSeq(seq, i + 1, Len(seq))

\* performSimulationStep after predictWorkerRisk resolved, lines 295-340
PredictionResolved(i, prediction) ==
  LET targetWorker == inflight[i].targetWorker
      simulationType == inflight[i].simulationType
      nextValues == CalculateNextSimulationValues(targetWorker, simulationType)
      updatedWorker == Merge(targetWorker, nextValues)
      risk == RiskOf(prediction)
      published == [simulationState EXCEPT
                      !.currentValues = Some(Merge(updatedWorker, risk))]
  IN  /\ inflight' = RemoveAt(inflight, i)
      /\ workers' = OnWorkerUpdate(OnWorkerUpdate(workers, nextValues), risk)
      /\ IF ~ShouldContinueSimulation(updatedWorker, simulationType, stepCountRef + 1)
           THEN StopSimulation("Simulation completed successfully", published)
           ELSE /\ currentWorkerValuesRef' =
                     Some(Merge(Merge(targetWorker, nextValues), risk))
                /\ simulationState' = published
                /\ stepCountRef' = stepCountRef + 1
                /\ consecutiveErrorsRef' = 0
                /\ UNCHANGED <<intervalRef, armed, errorCountRef,
                               simulationTypeRef, isActiveRef, lastStop>>
      /\ reported' = NULL
      /\ UNCHANGED <<timerSeq, baselineValuesRef, fired>>

\* performSimulationStep after predictWorkerRisk rejected, lines 342-414
PredictionRejected(i) ==
  LET targetWorker == inflight[i].targetWorker
      simulationType == inflight[i].simulationType
      nextValues == CalculateNextSimulationValues(targetWorker, simulationType)
      updatedWorker == Merge(targetWorker, nextValues)
      published == [simulationState EXCEPT !.currentValues = Some(updatedWorker)]
  IN  /\ inflight' = RemoveAt(inflight, i)
      /\ workers' = OnWorkerUpdate(workers, nextValues)
      /\ IF ConsecutiveErrorsExceeded(consecutiveErrorsRef + 1)
           THEN StopSimulation("Too many consecutive errors", published)
         ELSE IF TotalErrorsExceeded(errorCountRef + 1)
           THEN StopSimulation("Too many total errors", published)
         ELSE IF MaximumStepsReached(stepCountRef + 1)
           THEN StopSimulation("Maximum steps reached", published)
         ELSE /\ currentWorkerValuesRef' = Some(Merge(targetWorker, nextValues))
              /\ simulationState' = published
              /\ errorCountRef' = errorCountRef + 1
              /\ consecutiveErrorsRef' = consecutiveErrorsRef + 1
              /\ stepCountRef' = stepCountRef + 1
              /\ UNCHANGED <<intervalRef, armed, simulationTypeRef, isActiveRef,
                             lastStop>>
      /\ reported' = Some(ErrorContext(stepCountRef, simulationType,
                                       errorCountRef + 1,
                                       consecutiveErrorsRef + 1))
      /\ UNCHANGED <<timerSeq, baselineValuesRef, fired>>

\* resetToBaseline, lines 518-539
ResetToBaselineWith(freshWorker) ==
  IF FindTargetWorker = NULL
    THEN UNCHANGED vars
    ELSE /\ StopSimulation("Resetting to baseline", simulationState)
         /\ workers' = OnWorkerUpdate(workers,
              Merge([ temperature |-> freshWorker.temperature,
                      humidity |-> freshWorker.humidity ] @@ NoRisk, <<>>))
         /\ reported' = NULL
         /\ UNCHANGED <<baselineValuesRef, timerSeq, inflight, fired>>

----------------------------------------------------------------------------
(* ModelLoader of src/aegis/lib/modelLoader.ts: one call of predict.  The    *)
(* promise of callPythonScript is settled by the first of the 'close'       *)
(* handler, the 'error' handler and the timeout callback to call resolve or *)
(* reject; predict continues after its await in the same turn of the event  *)
(* loop's microtasks.  clock counts the seconds since the call.             *)

PYTHON_TIMEOUT == 30                   \* setTimeout(..., 30000), seconds

\* what predict returns from its catch block, lines 125-131
ErrorResult(message) ==
  [ risk_score |-> 0, predicted_class |-> "error", confidence |-> 0,
    error |-> message ]

\* what the script can have written to stdout when it closes
PythonOutputs == {"result", "result with error", "not JSON"}

\* JSON.parse(outputData.trim()), line 72: <<>> when it throws
ParsePythonOutput(outputData) ==
  IF outputData = "result"
    THEN Some([ risk_score |-> 7500, predicted_class |-> "hot",
                confidence |-> 600, error |-> "" ])
  ELSE IF outputData = "result with error"
    THEN Some([ risk_score |-> 0, predicted_class |-> "error",
                confidence |-> 0, error |-> "Model not loaded" ])
  ELSE NULL

\* the inputs of predict: the typeof of the two required fields
PredictionInputs ==
  [ Temperature : {"number", "undefined", "string"},
    Humidity : {"number", "undefined"} ]

IdleCall ==
  [ phase |-> "idle", promise |-> "none", process |-> "none",
    timer |-> "none", clock |-> 0, first |-> "none", decidedBy |-> "none",
    settledAt |-> 0, returns |-> 0, result |-> ErrorResult("none") ]

\* predict after its await, lines 119-131: the value the promise resolved with
\* is returned unless it has an error; a rejection is caught
PredictReturns(call, cause, value) ==
  [ call EXCEPT
      !.phase = "returned",
      !.decidedBy = cause,
      !.settledAt = call.clock,
      !.returns = call.returns + 1,
      !.result = IF value = NULL THEN ErrorResult(cause)
                 ELSE IF value[1].error # "" THEN ErrorResult(value[1].error)
                 ELSE value[1] ]

\* resolve(value) or reject(error) of the promise, lines 39-89: a settled
\* promise ignores every later call
Settle(call, how, cause, value) ==
  LET noted == [call EXCEPT
                  !.first = IF call.first = "none" THEN cause ELSE call.first]
  IN  IF call.promise # "pending"
        THEN noted
        ELSE PredictReturns([noted EXCEPT !.promise = how], cause, value)

\* the 'close' handler, lines 65-76
OnClose(call, code, outputData) ==
  IF code # "0"
    THEN Settle(call, "rejected", "non-zero exit", NULL)
  ELSE IF ParsePythonOutput(outputData) = NULL
    THEN Settle(call, "rejected", "unparsable output", NULL)
  ELSE IF ParsePythonOutput(outputData)[1].error # ""
    THEN Settle(call, "resolved", "error output", ParsePythonOutput(outputData))
  ELSE Settle(call, "resolved", "success", ParsePythonOutput(outputData))

\* the 'error' handler, lines 80-82
OnError(call) == Settle(call, "rejected", "spawn error", NULL)

\* a timeout callback that kills the process and leaves the promise alone
OnTimeout_KillOnly(call) ==
  [ call EXCEPT
      !.timer = "fired",
      !.process = IF call.process = "running" THEN "killed" ELSE call.process ]

\* the timeout callback, lines 85-88: it was never cleared, so it runs also
\* after the process has closed
OnTimeout(call) ==
  Settle([ call EXCEPT
             !.timer = "fired",
             !.process = IF call.process = "running" THEN "killed"
                         ELSE call.process ],
         "rejected", "timeout", NULL)

\* predict up to its await, lines 112-118
Predict(inputData) ==
  /\ pythonCall.phase = "idle"
  /\ pythonCall' =
       IF inputData.Temperature # "number" \/ inputData.Humidity # "number"
         THEN PredictReturns([pythonCall EXCEPT !.first = "invalid input"],
                             "invalid input", NULL)
         ELSE [ pythonCall EXCEPT
                  !.phase = "awaiting", !.promise = "pending",
                  !.process = "running", !.timer = "armed" ]
  /\ UNCHANGED <<hookVars, jsLoader, scoreCall, healthResponse>>

PredictCalled == \E inputData \in PredictionInputs : Predict(inputData)

\* a second passes; the timer runs its callback when its delay is over
ClockTick ==
  /\ pythonCall.timer = "armed"
  /\ pythonCall.clock < PYTHON_TIMEOUT
  /\ pythonCall' = [pythonCall EXCEPT !.clock = pythonCall.clock + 1]
  /\ UNCHANGED <<hookVars, jsLoader, scoreCall, healthResponse>>

\* the process ends: by itself with an exit code, with code null when the
\* kill signal ended it, or with a negative code when it failed to start
ProcessClose ==
  /\ pythonCall.process \in {"running", "killed", "errored"}
  /\ \E code \in (CASE pythonCall.process = "running" -> {"0", "1"}
                    [] pythonCall.process = "killed" -> {"null", "0", "1"}
                    [] OTHER -> {"-2", "0", "1"}) :
       \E outputData \in PythonOutputs :
         pythonCall' =
           OnClose([pythonCall EXCEPT !.process = "closed"], code, outputData)
  /\ UNCHANGED <<hookVars, jsLoader, scoreCall, healthResponse>>

\* the child emits 'error': it could not be spawned or could not be killed
ProcessError ==
  /\ pythonCall.process \in {"running", "killed"}
  /\ pythonCall' = OnError([pythonCall EXCEPT !.process = "errored"])
  /\ UNCHANGED <<hookVars, jsLoader, scoreCall, healthResponse>>

Timeout ==
  /\ pythonCall.timer = "armed"
  /\ pythonCall.clock = PYTHON_TIMEOUT
  /\ pythonCall' = OnTimeout(pythonCall)
  /\ UNCHANGED <<hookVars, jsLoader, scoreCall, healthResponse>>

InitPython == pythonCall = IdleCall

----------------------------------------------------------------------------
(* JSModelLoader of src/unnamed/part_001, lines 59-293.  A number is a      *)
(* record [kind, value]: kind "number" with value in tenths, kind "NaN"     *)
(* (typeof 'number', every comparison false) or kind "undefined".           *)
(* Probabilities are in hundredths, risk_score in ten-thousandths and       *)
(* confidence in thousandths, so the two Math.round of predict are exact.   *)

Number(value) == [kind |-> "number", value |-> value]
NotANumber == [kind |-> "NaN", value |-> 0]
Undefined == [kind |-> "undefined", value |-> 0]

\* typeof x === 'number'
TypeofNumber(x) == x.kind \in {"number", "NaN"}

\* parseJoblibFile, lines 77-82, 84-89 and 94-95 (means and scales in tenths)
FeatureColumns ==
  <<"Temperature", "Humidity", "hrv_mean_hr", "hrv_rmssd", "Gender", "Age">>

Classes == <<"neutral", "slightly warm", "warm", "hot">>

ScalerMean == <<250, 500, 700, 300, 5, 300>>
ScalerScale == <<50, 200, 100, 100, 5, 100>>

\* predict, lines 219-228: the features in column order, 0.0 for a missing one
Features(inputData) ==
  [ idx \in 1..Len(FeatureColumns) |->
      IF /\ FeatureColumns[idx] \in DOMAIN inputData
         /\ inputData[FeatureColumns[idx]].kind # "undefined"
        THEN inputData[FeatureColumns[idx]]
        ELSE Number(0) ]

\* scaler.transform, lines 96-100: (val - mean) / scale, held as the numerator
\* val - mean over the denominator ScalerScale[idx]
Transform(row) ==
  [ idx \in 1..Len(row) |->
      IF row[idx].kind = "NaN" THEN NotANumber
      ELSE Number(row[idx].value - ScalerMean[idx]) ]

\* const temp = (scaledFeatures[0] * 5.0) + 25.0, lines 112 and 126, in tenths
ReverseScaling(scaledFeatures) ==
  IF scaledFeatures[1].kind = "NaN" THEN NotANumber
  ELSE Number((scaledFeatures[1].value * 50) \div ScalerScale[1] + 250)

\* model.predict with the bands closed below
ModelPredict_Inclusive(scaledFeatures) ==
  LET temp == ReverseScaling(scaledFeatures) IN
  IF temp.kind = "number" /\ temp.value >= 280 THEN 3
  ELSE IF temp.kind = "number" /\ temp.value >= 260 THEN 2
  ELSE IF temp.kind = "number" /\ temp.value >= 240 THEN 1
  ELSE 0

\* model.predict, lines 107-122
ModelPredict(scaledFeatures) ==
  LET temp == ReverseScaling(scaledFeatures) IN
  IF temp.kind = "number" /\ temp.value > 280 THEN 3
  ELSE IF temp.kind = "number" /\ temp.value > 260 THEN 2
  ELSE IF temp.kind = "number" /\ temp.value > 240 THEN 1
  ELSE 0

\* model.predict_proba, lines 123-134
ModelPredictProba(scaledFeatures) ==
  LET temp == ReverseScaling(scaledFeatures) IN
  IF temp.kind = "number" /\ temp.value > 280 THEN <<5, 15, 20, 60>>
  ELSE IF temp.kind = "number" /\ temp.value > 260 THEN <<10, 20, 60, 10>>
  ELSE IF temp.kind = "number" /\ temp.value > 240 THEN <<20, 60, 15, 5>>
  ELSE <<60, 25, 10, 5>>

\* classToScore[className] || 0.5, lines 185-195, in hundredths: the 0.0 of
\* neutral is falsy and gives 0.5
ClassToScore(className) ==
  LET score == CASE className = "neutral" -> 0
                 [] className = "slightly warm" -> 33
                 [] className = "warm" -> 67
                 [] className = "hot" -> 100
  IN  IF score = 0 THEN 50 ELSE score

RECURSIVE WeightedScore(_, _)
WeightedScore(probabilities, i) ==
  IF i = 0 THEN 0
  ELSE WeightedScore(probabilities, i - 1)
         + probabilities[i] * ClassToScore(Classes[i])

\* calculateRiskScore of JSModelLoader, lines 182-200, in ten-thousandths
JSCalculateRiskScore(prediction, probabilities) ==
  Min(10000, WeightedScore(probabilities, Len(probabilities)) + 1500)

RECURSIVE MaxOf(_, _)
MaxOf(seq, i) ==
  IF i = 1 THEN seq[1] ELSE Max(MaxOf(seq, i - 1), seq[i])

\* predict of JSModelLoader, lines 205-263; loaded tells whether components
\* are there after the loadModel of lines 207-213
JSPredictResult(inputData, loaded) ==
  IF ~loaded
    THEN ErrorResult("Failed to load model components")
  ELSE IF ~TypeofNumber(inputData.Temperature) \/ ~TypeofNumber(inputData.Humidity)
    THEN ErrorResult("Temperature and Humidity are required fields")
  ELSE LET scaledFeatures == Transform(Features(inputData))
           prediction == ModelPredict(scaledFeatures)
           probs == ModelPredictProba(scaledFeatures)
       IN  [ risk_score |-> JSCalculateRiskScore(prediction, probs),
             predicted_class |-> Classes[prediction + 1],
             confidence |-> MaxOf(probs, Len(probs)) * 10,
             error |-> "" ]

\* the inputs of predict
JSInputs ==
  [ Temperature : { Number(t) : t \in {200, 239, 240, 241, 259, 260, 261,
                                        279, 280, 281, 300, 340} }
                    \cup {NotANumber, Undefined},
    Humidity : {Number(200), Number(900), Undefined},
    hrv_mean_hr : {Number(700), Undefined} ]

\* jsModelLoader.predict(inputData); filesReadable: fs.readFileSync of the
\* four model files succeeds (parseJoblibFile, lines 73 and 139-141)
JSPredict(inputData, filesReadable) ==
  LET loaded == jsLoader.components = "loaded" \/ filesReadable IN
  /\ jsLoader' =
       [ components |-> IF loaded THEN "loaded" ELSE "null",
         inputData |-> inputData,
         result |-> JSPredictResult(inputData, loaded) ]
  /\ UNCHANGED <<hookVars, pythonCall, scoreCall, healthResponse>>

JSPredictCalled ==
  \E inputData \in JSInputs : \E filesReadable \in BOOLEAN :
    JSPredict(inputData, filesReadable)

InitJS ==
  jsLoader = [ components |-> "null",
               inputData |-> [ Temperature |-> Undefined, Humidity |-> Undefined,
                               hrv_mean_hr |-> Undefined ],
               result |-> ErrorResult("none") ]

----------------------------------------------------------------------------
(* calculateRiskScore of ModelLoader, src/aegis/lib/modelLoader.ts: the     *)
(* class weights are in hundredths, the confidence in thousandths and the   *)
(* score in hundred-thousandths.                                            *)

\* predictedClass.toLowerCase(), line 146, on the names of PredictedClasses
ToLowerCase(predictedClass) ==
  CASE predictedClass = "Neutral" -> "neutral"
    [] predictedClass = "HOT" -> "hot"
    [] OTHER -> predictedClass

\* classRiskMap[predictedClass.toLowerCase()] || 0.5, lines 139-146: a class
\* the map does not hold gives undefined, and undefined and 0.0 are falsy
BaseRisk(predictedClass) ==
  LET className == ToLowerCase(predictedClass)
      classRisk == CASE className = "neutral" -> Some(0)
                     [] className = "slightly warm" -> Some(33)
                     [] className = "warm" -> Some(67)
                     [] className = "hot" -> Some(100)
                     [] OTHER -> NULL
  IN  IF classRisk = NULL \/ classRisk[1] = 0 THEN 50 ELSE classRisk[1]

\* calculateRiskScore, lines 138-151
CalculateRiskScore(predictedClass, confidence) ==
  Min(100000, BaseRisk(predictedClass) * confidence + 10000)

\* the arguments of calculateRiskScore
PredictedClasses ==
  {"neutral", "Neutral", "slightly warm", "warm", "hot", "HOT", "cold"}

Confidences == {0, 250, 600, 850, 1000}

CalculateRiskScoreCalled ==
  /\ \E predictedClass \in PredictedClasses : \E confidence \in Confidences :
       scoreCall' = [ predictedClass |-> predictedClass,
                      confidence |-> confidence,
                      result |-> CalculateRiskScore(predictedClass, confidence) ]
  /\ UNCHANGED <<hookVars, pythonCall, jsLoader, healthResponse>>

InitScore ==
  scoreCall = [ predictedClass |-> "none", confidence |-> 0, result |-> 0 ]

----------------------------------------------------------------------------
(* The health route of src/unnamed/part_001 (lines 1-30) over healthCheck   *)
(* of JSModelLoader (lines 268-292).                                        *)

\* healthCheck, lines 268-292; loaded tells whether components are there
\* after the loadModel of lines 270-271
JSHealthCheck(loaded) ==
  IF ~loaded
    THEN [ status |-> "error", model_loaded |-> FALSE,
           error |-> "Failed to load model components" ]
    ELSE [ status |-> "healthy", model_loaded |-> TRUE, error |-> "" ]

\* a status code that answers 200 to a model that is not loaded
StatusCode_Inverted(healthResult) ==
  IF healthResult.status = "healthy" /\ healthResult.model_loaded
    THEN 503 ELSE 200

\* statusCode of GET, line 10
StatusCode(healthResult) ==
  IF healthResult.status = "healthy" /\ healthResult.model_loaded
    THEN 200 ELSE 503

\* GET of the health route, lines 4-25; filesReadable: fs.readFileSync of the
\* four model files succeeds (parseJoblibFile, lines 73 and 139-141)
HealthRoute(method, filesReadable) ==
  LET loaded == jsLoader.components = "loaded" \/ filesReadable
      healthResult == JSHealthCheck(loaded)
  IN  /\ jsLoader' =
           [jsLoader EXCEPT !.components = IF loaded THEN "loaded" ELSE "null"]
      /\ healthResponse' = [ method |-> method,
                             status |-> StatusCode(healthResult),
                             body |-> healthResult ]
      /\ UNCHANGED <<hookVars, pythonCall, scoreCall>>

GET == \E filesReadable \in BOOLEAN : HealthRoute("GET", filesReadable)

\* POST, lines 27-30: return GET(request)
POST == \E filesReadable \in BOOLEAN : HealthRoute("POST", filesReadable)

InitHealth ==
  healthResponse = [ method |-> "none", status |-> 0,
                     body |-> [ status |-> "none", model_loaded |-> FALSE,
                                error |-> "" ] ]

InitLoaders == InitPython /\ InitJS /\ InitScore /\ InitHealth

----------------------------------------------------------------------------
(* Actions *)

StartHeatUpSimulation ==
  /\ timerSeq < MaxStarts
  /\ StartSimulation("heatup")
  /\ UNCHANGED loaderVars

StartCoolDownSimulation ==
  /\ timerSeq < MaxStarts
  /\ StartSimulation("cooldown")
  /\ UNCHANGED loaderVars

\* stopSimulation called from outside (the hook returns it)
Stop ==
  /\ StopSimulation("Manual stop", simulationState)
  /\ reported' = NULL
  /\ UNCHANGED <<workers, baselineValuesRef, timerSeq, inflight, fired>>
  /\ UNCHANGED loaderVars

ResetToBaseline ==
  /\ \E freshWorker \in FreshProfiles : ResetToBaselineWith(freshWorker)
  /\ UNCHANGED loaderVars

\* an armed interval runs its callback
TimerFires ==
  /\ \E t \in armed :
       /\ Len(inflight) < MaxInFlight
       /\ fired < MaxTicks
       /\ PerformSimulationStep(t)
  /\ UNCHANGED loaderVars

OracleSucceeds ==
  /\ \E i \in 1..Len(inflight) : \E prediction \in Predictions :
       PredictionResolved(i, prediction)
  /\ UNCHANGED loaderVars

OracleFails ==
  /\ \E i \in 1..Len(inflight) : PredictionRejected(i)
  /\ UNCHANGED loaderVars

\* the parent renders the hook with a workers list that has no John Doe
WorkerRemoved ==
  /\ workers # <<>>
  /\ workers' = <<>>
  /\ UNCHANGED <<simulationState, intervalRef, armed, timerSeq, stepCountRef,
                 baselineValuesRef, errorCountRef, consecutiveErrorsRef,
                 simulationTypeRef, isActiveRef, currentWorkerValuesRef,
                 inflight, lastStop, fired, reported>>
  /\ UNCHANGED loaderVars

InitHook ==
  /\ simulationState =
       [ isActive |-> FALSE, type |-> "null", targetWorker |-> "John Doe",
         currentValues |-> NULL ]
  /\ intervalRef = 0
  /\ armed = {}
  /\ timerSeq = 0
  /\ stepCountRef = 0
  /\ baselineValuesRef = NULL
  /\ errorCountRef = 0
  /\ consecutiveErrorsRef = 0
  /\ simulationTypeRef = "null"
  /\ isActiveRef = FALSE
  /\ currentWorkerValuesRef = NULL
  /\ inflight = <<>>
  /\ lastStop = "none"
  /\ fired = 0
  /\ reported = NULL

Init == InitHook /\ InitLoaders /\ workers = <<NearMaxWorker>>

Next ==
  \/ WorkerRemoved
  \/ StartHeatUpSimulation
  \/ StartCoolDownSimulation
  \/ Stop
  \/ ResetToBaseline
  \/ TimerFires
  \/ OracleSucceeds
  \/ OracleFails

Spec == Init /\ [][Next]_vars

----------------------------------------------------------------------------
(* One run from construction whose oracle answers before the next callback *)
(* of the interval: the run is followed to its end, whatever its length.   *)

FirstStartHeatUp ==
  /\ timerSeq = 0
  /\ StartSimulation("heatup")
  /\ UNCHANGED loaderVars

FirstStartCoolDown ==
  /\ timerSeq = 0
  /\ StartSimulation("cooldown")
  /\ UNCHANGED loaderVars

TimerFiresAfterAnswer ==
  /\ \E t \in armed :
       /\ inflight = <<>>
       /\ PerformSimulationStep(t)
  /\ UNCHANGED loaderVars

InitRun == InitHook /\ InitLoaders /\ workers \in {<<ScenarioWorker>>, <<FrozenWorker>>}

NextRun ==
  \/ WorkerRemoved
  \/ FirstStartHeatUp
  \/ FirstStartCoolDown
  \/ Stop
  \/ ResetToBaseline
  \/ TimerFiresAfterAnswer
  \/ OracleSucceeds
  \/ OracleFails

SpecRun == InitRun /\ [][NextRun]_vars

----------------------------------------------------------------------------
(* The signal generator alone: calculateNextSimulationValues applied to a  *)
(* grid of workers within the documented ranges, and to what it returns.   *)

GridWorkers ==
  { Merge(BaseWorker,
      [ temperature |-> t, humidity |-> h, hrv_mean_hr |-> hr,
        hrv_rmssd |-> r, hrv_sdnn |-> sd ] @@ rest) :
      t \in {100, 105, 220, 335, 340},
      h \in {200, 220, 880, 900},
      hr \in {500, 505, 1090, 1100},
      r \in {150, 152, 1160, 1200},
      sd \in {200, 203, 1460, 1500},
      rest \in { [ hrv_mean_nni |-> 600, hrv_pnni_50 |-> 50,
                   hrv_total_power |-> 800, hrv_lf |-> 200, hrv_hf |-> 100 ],
                 [ hrv_mean_nni |-> 1190, hrv_pnni_50 |-> 490,
                   hrv_total_power |-> 4900, hrv_lf |-> 1480, hrv_hf |-> 990 ] } }

Generate(simulationType) ==
  /\ fired < GenSteps
  /\ fired' = fired + 1
  /\ workers' = OnWorkerUpdate(workers,
                  CalculateNextSimulationValues(workers[1], simulationType))
  /\ UNCHANGED <<simulationState, intervalRef, armed, timerSeq, stepCountRef,
                 baselineValuesRef, errorCountRef, consecutiveErrorsRef,
                 simulationTypeRef, isActiveRef, currentWorkerValuesRef,
                 inflight, lastStop, reported>>

GenerateHeatUp == Generate("heatup") /\ UNCHANGED loaderVars
GenerateCoolDown == Generate("cooldown") /\ UNCHANGED loaderVars

InitGen == InitHook /\ InitLoaders /\ workers \in { <<w>> : w \in GridWorkers }

NextGen == GenerateHeatUp \/ GenerateCoolDown

SpecGen == InitGen /\ [][NextGen]_vars

----------------------------------------------------------------------------
(* getSimulationProgress, lines 568-584.  The two legs are fractions of the *)
(* temperature and humidity ranges; they are kept exact by counting in     *)
(* 1/ProgressUnit of a percent, and the operator gives the sum of the two  *)
(* legs, twice the average the code returns.                               *)

ProgressUnit ==
  (MAX_TEMPERATURE - MIN_TEMPERATURE) * (MAX_HUMIDITY - MIN_HUMIDITY)

GetSimulationProgress(currentTemp, currentHumidity, simulationType) ==
  LET tempProgress ==
        IF simulationType = "heatup"
          THEN Min(100 * ProgressUnit,
                   (currentTemp - MIN_TEMPERATURE) * 100
                     * (MAX_HUMIDITY - MIN_HUMIDITY))
          ELSE Min(100 * ProgressUnit,
                   (MAX_TEMPERATURE - currentTemp) * 100
                     * (MAX_HUMIDITY - MIN_HUMIDITY))
      humidityProgress ==
        IF simulationType = "heatup"
          THEN Min(100 * ProgressUnit,
                   (currentHumidity - MIN_HUMIDITY) * 100
                     * (MAX_TEMPERATURE - MIN_TEMPERATURE))
          ELSE Min(100 * ProgressUnit,
                   (MAX_HUMIDITY - currentHumidity) * 100
                     * (MAX_TEMPERATURE - MIN_TEMPERATURE))
  IN  tempProgress + humidityProgress

----------------------------------------------------------------------------
(* The model loaders alone *)

\* the hook is left as constructed
InitOracle == InitHook /\ InitLoaders /\ workers = <<NearMaxWorker>>

NextPython ==
  \/ PredictCalled
  \/ ClockTick
  \/ ProcessClose
  \/ ProcessError
  \/ Timeout

SpecPython == InitOracle /\ [][NextPython]_vars

NextJS == JSPredictCalled

SpecJS == InitOracle /\ [][NextJS]_vars

\* the two risk-score calculators: calculateRiskScore of ModelLoader called
\* directly, the one of JSModelLoader through predict
NextScore ==
  \/ CalculateRiskScoreCalled
  \/ JSPredictCalled

SpecScore == InitOracle /\ [][NextScore]_vars

\* the health route and predict share the JSModelLoader singleton
NextHealth ==
  \/ GET
  \/ POST
  \/ JSPredictCalled

SpecHealth == InitOracle /\ [][NextHealth]_vars

----------------------------------------------------------------------------
(* Properties *)

AnswerArrives == OracleSucceeds \/ OracleFails

\* C1: single-flight ticks: in every reachable state at most one tick is
\* awaiting the Risk Oracle (a timer callback that finds a tick in flight
\* starts no second oracle call).
C1_SingleFlight == Len(inflight) <= 1

\* C2: at most one periodic timer is armed at any time, and it is the one
\* intervalRef holds: no interval created by an earlier start survives a
\* later start.
C2_AtMostOneTimer ==
  /\ Cardinality(armed) <= 1
  /\ armed \subseteq {intervalRef}
  /\ 0 \notin armed

\* a second start has armed its interval
C2_Witness == timerSeq = 2 /\ armed = {2} /\ isActiveRef

\* C3: consecutive-error budget: the failed tick that brings the
\* consecutive-error counter to 3 stops the run with the consecutive-error
\* reason, whatever the total-error count; the counter is never left at 3 or
\* more, so no tick begins with it there.
C3_ConsecutiveBudget ==
  [][ /\ consecutiveErrorsRef' < 3
      /\ (OracleFails /\ consecutiveErrorsRef = 2) =>
           /\ ~isActiveRef'
           /\ armed' = {}
           /\ lastStop' = "Too many consecutive errors" ]_vars

\* three failures in a row have stopped a run whose total is below 10
C3_Witness ==
  /\ lastStop = "Too many consecutive errors"
  /\ fired = 3
  /\ ~isActiveRef
  /\ inflight = <<>>

\* C4: total-error budget: the failed tick that brings the total-error
\* counter to 10 without being the third failure in a row stops the run with
\* the total-error reason; the counter is never left at 10 or more.
C4_TotalBudget ==
  [][ /\ errorCountRef' < 10
      /\ (OracleFails /\ errorCountRef = 9 /\ consecutiveErrorsRef < 2) =>
           /\ ~isActiveRef'
           /\ armed' = {}
           /\ lastStop' = "Too many total errors" ]_vars

\* ten failures interspersed with successes have stopped a run
C4_Witness == lastStop = "Too many total errors" /\ ~isActiveRef

\* C5: degraded tick: the state published by a tick whose oracle call failed
\* carries no risk annotation.
C5_DegradedTickHasNoRisk ==
  [][ OracleFails => ~HasRisk(simulationState'.currentValues[1]) ]_vars

\* C6: step ceiling: the step counter never exceeds MAX_SIMULATION_STEPS, and
\* the tick that brings it to 100 stops the run, whether its oracle call
\* succeeded or failed and whatever the temperature and humidity are.
C6_StepCeiling ==
  [][ /\ stepCountRef' < 100
      /\ (AnswerArrives /\ stepCountRef = 99) =>
           /\ ~isActiveRef'
           /\ armed' = {}
           /\ stepCountRef' = 0 ]_vars

\* a run was stopped by the step limit of the failure path with the
\* temperature and the humidity short of their maxima
C6_Witness ==
  /\ lastStop = "Maximum steps reached"
  /\ workers[1].temperature < 340

\* C7: termination policy uses OR: below the step ceiling a successful tick of
\* an active run leaves the run active iff, in heat-up, the merged temperature
\* is below 34 or the merged humidity below 90 and, in cool-down, the
\* temperature is above 10 or the humidity above 20.
C7_TerminationPolicyOr ==
  [][ (OracleSucceeds /\ isActiveRef /\ stepCountRef + 1 < 100) =>
        LET merged == simulationState'.currentValues[1] IN
        isActiveRef' <=>
          IF simulationTypeRef = "heatup"
            THEN merged.temperature < 340 \/ merged.humidity < 900
            ELSE merged.temperature > 100 \/ merged.humidity > 200 ]_vars

\* a heat-up run continues with temperature at its maximum and humidity below
C7_Witness ==
  /\ isActiveRef
  /\ simulationTypeRef = "heatup"
  /\ stepCountRef > 0
  /\ workers # <<>>
  /\ workers[1].temperature = 340
  /\ workers[1].humidity < 900

\* C8: signal generator bounds: from a worker within the documented ranges,
\* every worker the generator returns, in either mode, has temperature in
\* 10..34, humidity in 20..90, mean HR in 50..110, RMSSD in 15..120 and SDNN in
\* 20..150.
C8_GeneratorBounds ==
  LET w == workers[1] IN
  /\ w.temperature \in 100..340
  /\ w.humidity \in 200..900
  /\ w.hrv_mean_hr \in 500..1100
  /\ w.hrv_rmssd \in 150..1200
  /\ w.hrv_sdnn \in 200..1500

\* the generator has clamped temperature, humidity, mean HR and SDNN at their
\* maxima
C8_Witness ==
  /\ fired > 0
  /\ workers[1].temperature = 340
  /\ workers[1].humidity = 900
  /\ workers[1].hrv_mean_hr = 1100
  /\ workers[1].hrv_sdnn = 1500

\* C9: heat-up step values: a successful heat-up tick publishes and writes to
\* the subject the tick's worker with 1.2 added to temperature, 3.5 to
\* humidity and 1.5 to mean HR wherever the sum stays within the maximum, and
\* the oracle's risk annotation; from 22.0 / 45.0 / 70.0 that is 23.2 / 48.5 /
\* 71.5 (the subject being in the workers list).
C9_HeatUpStep ==
  [][ (OracleSucceeds /\ Len(inflight) = 1 /\ workers # <<>>
         /\ inflight[1].simulationType = "heatup") =>
        LET before == inflight[1].targetWorker
            merged == simulationState'.currentValues[1]
            subject == workers'[1]
        IN  /\ before.temperature + 12 <= 340 =>
                 /\ merged.temperature = before.temperature + 12
                 /\ subject.temperature = before.temperature + 12
            /\ before.humidity + 35 <= 900 =>
                 /\ merged.humidity = before.humidity + 35
                 /\ subject.humidity = before.humidity + 35
            /\ before.hrv_mean_hr + 15 <= 1100 =>
                 /\ merged.hrv_mean_hr = before.hrv_mean_hr + 15
                 /\ subject.hrv_mean_hr = before.hrv_mean_hr + 15
            /\ \E prediction \in Predictions :
                 /\ merged.riskScore = prediction.risk_score
                 /\ merged.predictedClass = prediction.predicted_class
                 /\ merged.confidence = prediction.confidence
            /\ ( /\ before.temperature = 220
                 /\ before.humidity = 450
                 /\ before.hrv_mean_hr = 700 ) =>
                 /\ subject.temperature = 232
                 /\ subject.humidity = 485
                 /\ subject.hrv_mean_hr = 715 ]_vars

\* the first tick of a heat-up run from 22.0 / 45.0 / 70.0 has succeeded
C9_Witness ==
  /\ isActiveRef
  /\ simulationTypeRef = "heatup"
  /\ stepCountRef = 1
  /\ errorCountRef = 0
  /\ baselineValuesRef = <<[temperature |-> 220, humidity |-> 450]>>
  /\ workers # <<>>
  /\ workers[1].temperature = 232
  /\ workers[1].humidity = 485
  /\ workers[1].hrv_mean_hr = 715
  /\ HasRisk(simulationState.currentValues[1])

\* C10: teardown is idempotent: stopSimulation called when the loop is not
\* active changes neither the timer, the mode, the active flag, the counters,
\* the cache nor the published isActive and type.
C10_StopWhenIdleIsNoOp ==
  [][ (Stop /\ ~isActiveRef) =>
        /\ UNCHANGED <<intervalRef, armed, simulationTypeRef, isActiveRef,
                       stepCountRef, errorCountRef, consecutiveErrorsRef,
                       currentWorkerValuesRef>>
        /\ simulationState'.isActive = simulationState.isActive
        /\ simulationState'.type = simulationState.type ]_vars

\* C11: stop clears the run: whenever the loop is Idle (from the return of
\* stopSimulation until the next start) no timer is armed, the step, total
\* error and consecutive error counters are 0 and there is no cached subject
\* state, also when the stop came while a tick was awaiting the oracle.
C11_StopClearsRun ==
  ~isActiveRef =>
    /\ armed = {}
    /\ intervalRef = 0
    /\ stepCountRef = 0
    /\ errorCountRef = 0
    /\ consecutiveErrorsRef = 0
    /\ currentWorkerValuesRef = NULL

C13_ResetDiscardsRisk ==
  (lastStop = "Resetting to baseline" /\ workers # <<>>) =>
    /\ ~isActiveRef
    /\ ~HasRisk(workers[1])
    /\ \E freshWorker \in FreshProfiles :
         /\ workers[1].temperature = freshWorker.temperature
         /\ workers[1].humidity = freshWorker.humidity

\* C14: sole writer per run: while a run is active, the answer of a tick that
\* an earlier interval started (one that is no longer the interval of the
\* run) writes nothing to the subject, the cache or the published state.
C14_SoleWriterPerRun ==
  [][ (/\ isActiveRef
       /\ \E i \in 1..Len(inflight) :
            /\ inflight[i].timer # intervalRef
            /\ \/ PredictionRejected(i)
               \/ \E prediction \in Predictions : PredictionResolved(i, prediction))
      => UNCHANGED <<workers, currentWorkerValuesRef, simulationState>> ]_vars

\* A run left to itself from a worker within the documented ranges: one
\* start, no stop or reset from the caller.  The
\* interval keeps firing while it is armed (setInterval, lines 464 and 507)
\* and every call of predictWorkerRisk returns.
NextLive ==
  \/ WorkerRemoved
  \/ FirstStartHeatUp
  \/ FirstStartCoolDown
  \/ TimerFiresAfterAnswer
  \/ OracleSucceeds
  \/ OracleFails

InitLive == InitHook /\ InitLoaders /\ workers \in {<<ScenarioWorker>>, <<NearMaxWorker>>}

SpecLive ==
  /\ InitLive
  /\ [][NextLive]_vars
  /\ WF_vars(TimerFiresAfterAnswer)
  /\ WF_vars(AnswerArrives)

\* C15: every run terminates: when the timer keeps firing and every oracle
\* call returns, a loop that is Running is eventually Idle again, whatever
\* the successes and failures of the oracle, with no stop from the caller.
C15_EveryRunTerminates == isActiveRef ~> ~isActiveRef

\* a run has ended by itself
C15_Witness ==
  /\ timerSeq = 1
  /\ ~isActiveRef
  /\ lastStop = "Simulation completed successfully"

\* C16: the stop reason is published: every step that takes the loop from
\* Running to Idle leaves in the published simulationState a stop reason,
\* the reason stopSimulation was called with.
C16_StopReasonPublished ==
  [][ (isActiveRef /\ ~isActiveRef') =>
        /\ "stopReason" \in DOMAIN simulationState'
        /\ simulationState'.stopReason = lastStop' ]_vars

\* C17: progress range: getSimulationProgress of the published temperature
\* and humidity, in the mode of the run, is between 0 and 100 percent, also
\* for a temperature below the minimum or above the maximum.
C17_ProgressRange ==
  simulationState.isActive =>
    LET progress ==
          GetSimulationProgress(simulationState.currentValues[1].temperature,
                                simulationState.currentValues[1].humidity,
                                simulationState.type)
    IN  /\ 0 <= progress
        /\ progress <= 2 * 100 * ProgressUnit

\* C20: the termination policy is evaluated on every tick: an answered tick
\* of an active run, successful or failed, that does not exhaust an error
\* budget and publishes a state at the limits of the mode (heat-up at 34 and
\* 90, cool-down at 10 and 20) stops the run as completed in that same tick.
C20_PolicyOnEveryTick ==
  [][ (/\ AnswerArrives
       /\ isActiveRef
       /\ lastStop' \notin {"Too many consecutive errors", "Too many total errors"}
       /\ LET merged == simulationState'.currentValues[1] IN
            \/ /\ simulationTypeRef = "heatup"
               /\ merged.temperature = MAX_TEMPERATURE
               /\ merged.humidity = MAX_HUMIDITY
            \/ /\ simulationTypeRef = "cooldown"
               /\ merged.temperature = MIN_TEMPERATURE
               /\ merged.humidity = MIN_HUMIDITY)
      => /\ ~isActiveRef'
         /\ lastStop' = "Simulation completed successfully" ]_vars

\* C18: the oracle call is bounded and never hangs: a call of
\* ModelLoader.predict returns once; while it awaits, the 30 s timer is
\* armed, and once the timer has run the call has returned; the first of
\* close, error and timeout (or the input check) decides the result, and
\* every failure gives the error-valued result, never a rejection.
C18_PredictBounded ==
  /\ pythonCall.returns <= 1
  /\ pythonCall.phase = "awaiting" =>
       /\ pythonCall.promise = "pending"
       /\ pythonCall.timer = "armed"
       /\ pythonCall.clock <= PYTHON_TIMEOUT
  /\ pythonCall.timer = "fired" => pythonCall.phase = "returned"
  /\ pythonCall.phase = "returned" =>
       /\ pythonCall.returns = 1
       /\ pythonCall.settledAt <= PYTHON_TIMEOUT
       /\ pythonCall.decidedBy = pythonCall.first
       /\ IF pythonCall.decidedBy = "success"
            THEN pythonCall.result = ParsePythonOutput("result")[1]
            ELSE /\ pythonCall.decidedBy \in
                      {"invalid input", "spawn error", "non-zero exit",
                       "unparsable output", "error output", "timeout"}
                 /\ pythonCall.result.predicted_class = "error"
                 /\ pythonCall.result.risk_score = 0
                 /\ pythonCall.result.confidence = 0
                 /\ pythonCall.result.error # ""

\* the timeout decided a call whose process never closed
C18_Witness ==
  /\ pythonCall.phase = "returned"
  /\ pythonCall.decidedBy = "timeout"
  /\ pythonCall.settledAt = PYTHON_TIMEOUT
  /\ pythonCall.process = "killed"
  /\ pythonCall.result.predicted_class = "error"

\* the class the bands of the model give a temperature in tenths
BandClass(temperature) ==
  IF temperature.kind = "number" /\ temperature.value > 280 THEN "hot"
  ELSE IF temperature.kind = "number" /\ temperature.value > 260 THEN "warm"
  ELSE IF temperature.kind = "number" /\ temperature.value > 240
    THEN "slightly warm"
  ELSE "neutral"

\* the result of the newest call is in range and has the class of the band
ResultInRange ==
  /\ jsLoader.result.risk_score \in 0..10000
  /\ jsLoader.result.confidence \in 0..1000
  /\ jsLoader.result.predicted_class \in
       {"neutral", "slightly warm", "warm", "hot"}
  /\ jsLoader.result.predicted_class = BandClass(jsLoader.inputData.Temperature)

NumericInput ==
  /\ TypeofNumber(jsLoader.inputData.Temperature)
  /\ TypeofNumber(jsLoader.inputData.Humidity)

\* C19 as stated: for every input with numeric Temperature and Humidity
\* JSModelLoader.predict returns risk_score and confidence in [0,1] and the
\* class of the temperature band.
C19_OutputRanges_AsStated == NumericInput => ResultInRange

\* C19: oracle output ranges: for every input with numeric Temperature and
\* Humidity, once the model components are loaded, JSModelLoader.predict
\* returns risk_score in [0,1], confidence in [0,1] and the class of the
\* temperature band (>28 hot, >26 warm, >24 slightly warm, else neutral);
\* when the components cannot be loaded it returns the error result.
C19_OutputRanges ==
  NumericInput =>
    IF jsLoader.components = "loaded"
      THEN ResultInRange
      ELSE /\ jsLoader.result.predicted_class = "error"
           /\ jsLoader.result.risk_score = 0
           /\ jsLoader.result.confidence = 0

\* a call at the edge of the hot band, optional features missing
C19_Witness ==
  /\ jsLoader.components = "loaded"
  /\ jsLoader.inputData.Temperature = Number(280)
  /\ jsLoader.inputData.hrv_mean_hr = Undefined
  /\ jsLoader.result.predicted_class = "warm"
  /\ jsLoader.result.risk_score = 7680
  /\ jsLoader.result.confidence = 600

\* C21: successful tick bookkeeping: a tick of an active run whose oracle call
\* succeeds and which does not end the run sets the consecutive-error counter
\* to 0, leaves the total-error counter, adds exactly 1 to the step counter
\* and sets the cache to the previous cache overlaid with the values the tick
\* generated and the risk annotation; while a run stays active and no start
\* intervenes the step counter never decreases.
C21_SuccessBookkeeping ==
  [][ /\ \A i \in 1..Len(inflight) : \A prediction \in Predictions :
           (PredictionResolved(i, prediction) /\ isActiveRef /\ isActiveRef') =>
             LET nextValues ==
                   CalculateNextSimulationValues(inflight[i].targetWorker,
                                                 inflight[i].simulationType)
                 annotation ==
                   [ riskScore |-> prediction.risk_score,
                     predictedClass |-> prediction.predicted_class,
                     confidence |-> prediction.confidence ]
             IN  /\ consecutiveErrorsRef' = 0
                 /\ errorCountRef' = errorCountRef
                 /\ stepCountRef' = stepCountRef + 1
                 /\ currentWorkerValuesRef # NULL
                 /\ currentWorkerValuesRef' =
                      Some(Merge(Merge(currentWorkerValuesRef[1], nextValues),
                                 annotation))
      /\ (isActiveRef /\ isActiveRef' /\ timerSeq' = timerSeq) =>
           stepCountRef' >= stepCountRef ]_vars

\* a successful tick after a failed one: the consecutive-error counter is
\* back at 0, the total stays at 1, the step counter is 2
C21_Witness ==
  /\ isActiveRef
  /\ stepCountRef = 2
  /\ errorCountRef = 1
  /\ consecutiveErrorsRef = 0
  /\ currentWorkerValuesRef # NULL
  /\ HasRisk(currentWorkerValuesRef[1])

\* C22: start initializes a fresh run: when the subject exists, right after
\* startHeatUpSimulation or startCoolDownSimulation returns, from Idle or from
\* an active run of either mode, the loop is active in the requested mode,
\* the step counter and both error counters are 0, the baseline snapshot is
\* the subject's temperature and humidity, the cache is the subject, exactly
\* one timer is armed and the published state is active with that mode.
C22_StartInitializesRun ==
  [][ \A simulationType \in {"heatup", "cooldown"} :
        (/\ workers # <<>>
         /\ IF simulationType = "heatup"
              THEN StartHeatUpSimulation ELSE StartCoolDownSimulation) =>
          /\ isActiveRef'
          /\ simulationTypeRef' = simulationType
          /\ stepCountRef' = 0
          /\ errorCountRef' = 0
          /\ consecutiveErrorsRef' = 0
          /\ baselineValuesRef' =
               <<[ temperature |-> workers[1].temperature,
                   humidity |-> workers[1].humidity ]>>
          /\ currentWorkerValuesRef' = <<workers[1]>>
          /\ Cardinality(armed') = 1
          /\ armed' = {intervalRef'}
          /\ intervalRef' \notin armed
          /\ simulationState'.isActive
          /\ simulationState'.type = simulationType
          /\ simulationState'.currentValues = <<workers[1]>> ]_vars

\* a cool-down run started over an active run that had a tick in flight
C22_Witness ==
  /\ timerSeq = 2
  /\ isActiveRef
  /\ simulationTypeRef = "cooldown"
  /\ stepCountRef = 0
  /\ inflight # <<>>
  /\ inflight[1].simulationType = "heatup"
  /\ currentWorkerValuesRef = <<workers[1]>>

\* a cool-down step of the generator leaves field between its floor and its
\* current value
Relaxes(field, floor) ==
  /\ workers'[1][field] <= workers[1][field]
  /\ workers'[1][field] >= floor

\* temperature, humidity, mean HR and the HRV statistics other than mean NNI
\* relax in a cool-down step
CoolDownRelaxes ==
  /\ Relaxes("temperature", 100)
  /\ Relaxes("humidity", 200)
  /\ Relaxes("hrv_mean_hr", 500)
  /\ Relaxes("hrv_rmssd", 150)
  /\ Relaxes("hrv_sdnn", 200)
  /\ Relaxes("hrv_pnni_50", 50)
  /\ Relaxes("hrv_total_power", 800)
  /\ Relaxes("hrv_lf", 200)
  /\ Relaxes("hrv_hf", 100)

\* C23 as stated: from a worker within the documented ranges a cool-down step
\* of the generator gives temperature, humidity, mean HR, RMSSD, SDNN, mean
\* NNI, pNN50, total power, LF and HF no greater than the current value and
\* no lower than the floor.
C23_CoolDownRelaxes_AsStated ==
  [][ GenerateCoolDown =>
        /\ CoolDownRelaxes
        /\ workers'[1].hrv_mean_nni <= workers[1].hrv_mean_nni ]_vars

\* C23: cool-down relaxes the primary quantities: from a worker within the
\* documented ranges a cool-down step of the generator gives temperature,
\* humidity, mean HR, RMSSD, SDNN, pNN50, total power, LF and HF no greater
\* than the current value and no lower than the floor (10, 20, 50, 15, 20, 5,
\* 800, 200, 100), while mean NNI does not decrease and is at most 1200.
C23_CoolDownRelaxes ==
  [][ GenerateCoolDown =>
        /\ CoolDownRelaxes
        /\ workers'[1].hrv_mean_nni >= workers[1].hrv_mean_nni
        /\ workers'[1].hrv_mean_nni <= 1200 ]_vars

\* a cool-down step has lowered temperature and RMSSD, held mean HR at its
\* floor and raised mean NNI
C23_Witness ==
  /\ fired = 1
  /\ workers[1].temperature = 208
  /\ workers[1].hrv_rmssd = 1152
  /\ workers[1].hrv_mean_hr = 500
  /\ workers[1].hrv_mean_nni = 624

C25_ActiveImpliesCached ==
  /\ isActiveRef <=> simulationTypeRef # "null"
  /\ isActiveRef => currentWorkerValuesRef # NULL
  /\ lastStop # "Target worker not found"

\* the subject is gone from the list, the run is active and has completed
\* two ticks from its cache while a third is in flight
C25_Witness ==
  /\ workers = <<>>
  /\ isActiveRef
  /\ currentWorkerValuesRef # NULL
  /\ stepCountRef = 2
  /\ inflight # <<>>

\* C26: monotone publication: when a tick of the run in progress completes,
\* the temperature and humidity it publishes to the subject are not below the
\* ones published before it in a heat-up run, and not above them in a
\* cool-down run, whatever the order in which the oracle answers.
C26_MonotonePublication ==
  [][\A i \in 1..Len(inflight) :
       ( /\ isActiveRef
         /\ inflight[i].timer = intervalRef
         /\ workers # <<>>
         /\ \/ PredictionRejected(i)
            \/ \E prediction \in Predictions : PredictionResolved(i, prediction) )
       => /\ simulationTypeRef = "heatup" =>
               /\ workers'[1].temperature >= workers[1].temperature
               /\ workers'[1].humidity >= workers[1].humidity
          /\ simulationTypeRef = "cooldown" =>
               /\ workers'[1].temperature <= workers[1].temperature
               /\ workers'[1].humidity <= workers[1].humidity]_vars

\* C27: run isolation of control state: while a run is active, the completion
\* (success or failure) of a tick that an earlier run left in flight neither
\* stops the run nor changes its step, total error and consecutive error
\* counters.
C27_RunIsolation ==
  [][\A i \in 1..Len(inflight) :
       ( /\ isActiveRef
         /\ inflight[i].timer # intervalRef
         /\ \/ PredictionRejected(i)
            \/ \E prediction \in Predictions : PredictionResolved(i, prediction) )
       => /\ isActiveRef'
          /\ intervalRef' = intervalRef
          /\ UNCHANGED <<stepCountRef, errorCountRef, consecutiveErrorsRef>>]_vars

\* a tick completes: the code after the await of performSimulationStep runs
TickCompletes ==
  \E i \in 1..Len(inflight) :
    \/ PredictionRejected(i)
    \/ \E prediction \in Predictions : PredictionResolved(i, prediction)

\* C28 as stated: the published state mirrors the control state: after every
\* operation the published isActive equals the loop's active flag and the
\* published type equals the loop's mode, and no tick completion changes the
\* published isActive or type.
C28_PublishedMirrorsControl_AsStated ==
  [][ /\ simulationState'.isActive = isActiveRef'
      /\ simulationState'.type = simulationTypeRef'
      /\ TickCompletes =>
            /\ simulationState'.isActive = simulationState.isActive
            /\ simulationState'.type = simulationState.type ]_vars

\* C28: the published state mirrors the control state: after every operation
\* the published isActive equals the loop's active flag and the published type
\* equals the loop's mode; a tick completion that does not stop the run
\* changes neither the published isActive nor the published type, and one
\* that stops it publishes isActive false and type null.
C28_PublishedMirrorsControl ==
  [][ /\ simulationState'.isActive = isActiveRef'
      /\ simulationState'.type = simulationTypeRef'
      /\ TickCompletes =>
            IF isActiveRef'
              THEN /\ simulationState'.isActive = simulationState.isActive
                   /\ simulationState'.type = simulationState.type
              ELSE /\ ~simulationState'.isActive
                   /\ simulationState'.type = "null" ]_vars

\* a run has been ended by its own tick: the published state shows the last
\* values and an inactive loop without a mode
C28_Witness ==
  /\ lastStop = "Simulation completed successfully"
  /\ ~isActiveRef
  /\ ~simulationState.isActive
  /\ simulationState.type = "null"
  /\ simulationState.currentValues # NULL
  /\ simulationState.currentValues[1].temperature = 340
  /\ simulationState.currentValues[1].humidity = 900

\* the weight the class table states for a class, in hundredths
TableWeight(className) ==
  CASE className = "neutral" -> 0
    [] className = "slightly warm" -> 33
    [] className = "warm" -> 67
    [] className = "hot" -> 100
    [] OTHER -> 50

RECURSIVE TableWeightedScore(_, _)
TableWeightedScore(probabilities, i) ==
  IF i = 0 THEN 0
  ELSE TableWeightedScore(probabilities, i - 1)
         + probabilities[i] * TableWeight(Classes[i])

\* C29: the risk score follows the class table: both calculators weight the
\* classes as their table states (neutral 0.0, slightly warm 0.33, warm 0.67,
\* hot 1.0, an unknown class 0.5): calculateRiskScore of ModelLoader returns
\* min(1, weight * confidence + 0.1), which is 0.1 for neutral at every
\* confidence, and the score of JSModelLoader.predict is
\* min(1, sum of probability * weight + 0.15).
C29_RiskScoreFollowsTable ==
  /\ scoreCall.predictedClass # "none" =>
        /\ scoreCall.result =
             Min(100000, TableWeight(ToLowerCase(scoreCall.predictedClass))
                           * scoreCall.confidence + 10000)
        /\ ToLowerCase(scoreCall.predictedClass) = "neutral" =>
             scoreCall.result = 10000
  /\ jsLoader.result.error = "" =>
        LET probs == ModelPredictProba(Transform(Features(jsLoader.inputData)))
        IN  jsLoader.result.risk_score =
              Min(10000, TableWeightedScore(probs, Len(probs)) + 1500)

====
